---- MODULE Spec2Model ----
(***************************************************************************)
(* Model of the M3U8 proxy (src/m3u8-proxy-implementation.js): the two     *)
(* Express handlers /m3u8-proxy and /ts-proxy, one request at a time.      *)
(* Text (URLs, playlist content) is a sequence of one-character strings,   *)
(* so that trimming, prefix tests, percent-encoding and the line-anchored  *)
(* regular expression are computed the way the JavaScript computes them.   *)
(* Header values and the `headers` query parameter are opaque values.      *)
(***************************************************************************)
EXTENDS Integers, Sequences, FiniteSets, TLC

\* ------------------------------------------------------------------ bounds
\* Largest number of lines in an upstream playlist.
MaxLines == 2
\* Largest number of chunks in an upstream segment body.
MaxChunks == 2

\* ------------------------------------------------------- JavaScript values
\* The value `undefined` (a missing query parameter or request header).
Undefined == "<undefined>"
\* Exceptions, as values of the text operators that can throw.
URIError == <<"<URIError>">>
TypeError == <<"<TypeError>">>

\* ------------------------------------------------------------------- text
LF == "\n"
CR == "\r"
\* The characters `.` does not match and at which ^ and $ anchor (flag m).
LineTerminators == {LF, CR}
WhiteSpace == {" ", LF, CR}

StartsWith(s, p) == Len(s) >= Len(p) /\ SubSeq(s, 1, Len(p)) = p

\* String.prototype.lastIndexOf for a single character; 0-based, -1 if none.
LastIndexOf(s, c) ==
    LET hits == {i \in 1..Len(s) : s[i] = c}
    IN  IF hits = {} THEN -1 ELSE (CHOOSE i \in hits : \A j \in hits : j <= i) - 1

\* String.prototype.substring(0, end), end 0-based exclusive.
Substring0(s, end) == SubSeq(s, 1, end)

\* String.prototype.trim.
Trim(s) ==
    LET keep == {i \in 1..Len(s) : s[i] \notin WhiteSpace}
    IN  IF keep = {} THEN << >>
        ELSE SubSeq(s, CHOOSE i \in keep : \A j \in keep : i <= j,
                       CHOOSE i \in keep : \A j \in keep : j <= i)

\* Characters encodeURIComponent escapes, with their two hex digits.
Escapes ==
    { <<":", "3", "A">>, <<"/", "2", "F">>, <<"?", "3", "F">>,
      <<"#", "2", "3">>, <<" ", "2", "0">>, <<"%", "2", "5">>,
      <<"=", "3", "D">>, <<"&", "2", "6">>,
      <<LF, "0", "A">>, <<CR, "0", "D">> }

EscapeOf(c) == CHOOSE e \in Escapes : e[1] = c

RECURSIVE EncodeURIComponent(_)
EncodeURIComponent(s) ==
    IF s = << >> THEN << >>
    ELSE LET c == Head(s)
         IN  (IF \E e \in Escapes : e[1] = c
              THEN <<"%", EscapeOf(c)[2], EscapeOf(c)[3]>>
              ELSE <<c>>) \o EncodeURIComponent(Tail(s))

\* decodeURIComponent: a '%' must be followed by two hex digits, else URIError.
RECURSIVE DecodeURIComponent(_)
DecodeURIComponent(s) ==
    IF s = << >> THEN << >>
    ELSE IF Head(s) # "%"
         THEN LET rest == DecodeURIComponent(Tail(s))
              IN  IF rest = URIError THEN URIError ELSE <<Head(s)>> \o rest
         ELSE IF Len(s) < 3 \/ ~ \E e \in Escapes : e[2] = s[2] /\ e[3] = s[3]
              THEN URIError
              ELSE LET c == (CHOOSE e \in Escapes : e[2] = s[2] /\ e[3] = s[3])[1]
                       rest == DecodeURIComponent(SubSeq(s, 4, Len(s)))
                   IN  IF rest = URIError THEN URIError ELSE <<c>> \o rest

\* -------------------------------------------------- the playlist rewrite
Http == <<"h", "t", "t", "p">>
DotTs == <<".", "t", "s">>
TsProxyUrl == <<"/", "t", "s", "-", "p", "r", "o", "x", "y", "?", "u", "r", "l", "=">>
SchemeSep == <<":", "/", "/">>

\* `headers` as Express hands it over: text is the string (or undefined),
\* json what JSON.parse makes of the decoded text ("SyntaxError", "null" or
\* "object") and map the object it yields.
UndefinedText == <<"<undefined>">>
NoHeaders == [k \in {} |-> ""]
Truthy(h) == h.text # UndefinedText /\ h.text # << >>

\* LineMatches without the (?!#) lookahead.
LineMatchesAnyStart(line) ==
    /\ Len(line) >= 4
    /\ \E i \in 2..(Len(line) - 2) : SubSeq(line, i, i + 2) = DotTs

\* The regular expression /^(?!#)(.+\.ts.*)$/ applied at the start of a line:
\* not '#' first, at least one character before ".ts", the whole line taken.
LineMatches(line) ==
    /\ Len(line) >= 4
    /\ line[1] # "#"
    /\ \E i \in 2..(Len(line) - 2) : SubSeq(line, i, i + 2) = DotTs

\* decodedUrl.substring(0, decodedUrl.lastIndexOf('/') + 1)
BaseUrl(decodedUrl) == Substring0(decodedUrl, LastIndexOf(decodedUrl, "/") + 1)

\* ResolveTsUrl without the startsWith test.
ResolveAlways(tsUrl, baseUrl) == baseUrl \o tsUrl

\* if (!tsUrl.startsWith('http')) tsUrl = baseUrl + tsUrl
ResolveTsUrl(tsUrl, baseUrl) ==
    IF ~ StartsWith(tsUrl, Http) THEN baseUrl \o tsUrl ELSE tsUrl

\* `${req.protocol}://${req.get('host')}`
Origin(q) == q.protocol \o SchemeSep \o q.host

\* The replace callback: its return value, or the exception it throws.
\* proxyUrl is declared const: under if (headers) the += evaluates
\* `&headers=${encodeURIComponent(headers)}` and then throws on the assignment,
\* so no link with a headers parameter is ever returned.
ReplaceCallback(tsFile, baseUrl, q) ==
    LET tsUrl == ResolveTsUrl(Trim(tsFile), baseUrl)
        proxyUrl == TsProxyUrl \o EncodeURIComponent(tsUrl)
    IN  IF Truthy(q.headers) THEN TypeError
        ELSE Origin(q) \o proxyUrl

RewriteLine(line, baseUrl, q) ==
    IF LineMatches(line) THEN ReplaceCallback(line, baseUrl, q) ELSE line

\* Position of the first line terminator of s, Len(s) + 1 when it has none.
FirstTerminator(s) ==
    LET at == {i \in 1..Len(s) : s[i] \in LineTerminators}
    IN  IF at = {} THEN Len(s) + 1 ELSE CHOOSE i \in at : \A j \in at : i <= j

\* content.replace(/.../gm, callback): every line (a maximal run of
\* characters that are not line terminators) is offered to the expression;
\* the terminators are kept; an exception of the callback ends the call.
RECURSIVE ReplaceAll(_, _, _)
ReplaceAll(content, baseUrl, q) ==
    LET k == FirstTerminator(content)
        first == RewriteLine(SubSeq(content, 1, k - 1), baseUrl, q)
    IN  IF first = TypeError THEN TypeError
        ELSE IF k > Len(content) THEN first
        ELSE LET rest == ReplaceAll(SubSeq(content, k + 1, Len(content)), baseUrl, q)
             IN  IF rest = TypeError THEN TypeError
                 ELSE first \o <<content[k]>> \o rest

\* ------------------------------------------------------- header building
Null == "<null>"
UserAgent == "Mozilla/5.0 (Windows NT 10.0; Win64; x64) AppleWebKit/537.36 (KHTML, like Gecko) Chrome/91.0.4472.124 Safari/537.36"

\* JSON.parse(decodeURIComponent(headers)) inside try/catch, under if (headers):
\* a failure of either step leaves requestHeaders = {}. Spreading null adds
\* nothing.
RequestHeaders(h) ==
    IF ~ Truthy(h) THEN NoHeaders
    ELSE IF DecodeURIComponent(h.text) = URIError THEN NoHeaders
    ELSE IF h.json = "SyntaxError" THEN NoHeaders
    ELSE IF h.json = "null" THEN NoHeaders
    ELSE h.map

\* Spread with the two spreads in the other order.
SpreadDefaultsLast(defaults, overrides) ==
    [k \in DOMAIN defaults \cup DOMAIN overrides |->
        IF k \in DOMAIN defaults THEN defaults[k] ELSE overrides[k]]

\* { ...defaults, ...requestHeaders }: the later spread wins.
Spread(defaults, overrides) ==
    [k \in DOMAIN defaults \cup DOMAIN overrides |->
        IF k \in DOMAIN overrides THEN overrides[k] ELSE defaults[k]]

M3u8Defaults ==
    [k \in {"User-Agent", "Accept", "Accept-Language", "Accept-Encoding",
            "Connection", "Upgrade-Insecure-Requests"} |->
        CASE k = "User-Agent" -> UserAgent
          [] k = "Accept" -> "*/*"
          [] k = "Accept-Language" -> "en-US,en;q=0.9"
          [] k = "Accept-Encoding" -> "gzip, deflate, br"
          [] k = "Connection" -> "keep-alive"
          [] k = "Upgrade-Insecure-Requests" -> "1"]

\* 'Range': req.headers.range || undefined -- the key is always there.
TsDefaults(q) ==
    [k \in {"User-Agent", "Accept", "Accept-Language", "Accept-Encoding",
            "Connection", "Range"} |->
        CASE k = "User-Agent" -> UserAgent
          [] k = "Accept" -> "*/*"
          [] k = "Accept-Language" -> "en-US,en;q=0.9"
          [] k = "Accept-Encoding" -> "gzip, deflate, br"
          [] k = "Connection" -> "keep-alive"
          [] k = "Range" -> IF q.range \in {Undefined, ""} THEN Undefined
                            ELSE q.range]

M3u8DefaultHeaders(q) == Spread(M3u8Defaults, RequestHeaders(q.headers))
TsDefaultHeaders(q) == Spread(TsDefaults(q), RequestHeaders(q.headers))

\* ----------------------------------------------------------------- inputs
NoText == <<"<none>">>

\* `headers`: missing, empty, "%" (not decodable), "{" (not JSON), "n" for
\* null, and three JSON objects ("{R}", "{U}", "{G}" stand for their texts).
HeaderParams ==
    { [text |-> UndefinedText, json |-> "SyntaxError", map |-> NoHeaders],
      [text |-> << >>, json |-> "SyntaxError", map |-> NoHeaders],
      [text |-> <<"%">>, json |-> "SyntaxError", map |-> NoHeaders],
      [text |-> <<"{">>, json |-> "SyntaxError", map |-> NoHeaders],
      [text |-> <<"n">>, json |-> "null", map |-> NoHeaders],
      [text |-> <<"{", "R", "}">>, json |-> "object",
       map |-> [k \in {"Referer"} |-> "http://site/"]],
      [text |-> <<"{", "U", "}">>, json |-> "object",
       map |-> [k \in {"User-Agent", "X-Token"} |-> "caller"]],
      [text |-> <<"{", "G", "}">>, json |-> "object",
       map |-> [k \in {"Range"} |-> "bytes=5-9"]] }

\* req.query.url: missing, empty, not decodable, and absolute URLs (plain,
\* last '/' in the query string, an escaped '/').
PlainUrl == <<"h", "t", "t", "p", ":", "/", "/", "h", "/", "a", "/", "i">>
QueryUrl == <<"h", "t", "t", "p", ":", "/", "/", "h", "/", "i", "?", "k", "=", "/", "v">>
EscapedUrl == <<"h", "t", "t", "p", ":", "/", "/", "h", "/", "a", "%", "2", "F", "i">>
UrlParams == {UndefinedText, << >>, <<"%">>, PlainUrl, QueryUrl, EscapedUrl}

UrlTruthy(u) == u # UndefinedText /\ u # << >>

Hosts == {<<"p">>}
Protocols == {Http, Http \o <<"s">>}
RangeValues == {Undefined, "", "bytes=0-999"}

M3u8Requests ==
    [url : UrlParams, headers : HeaderParams, range : {Undefined},
     protocol : Protocols, host : Hosts]
TsRequests ==
    [url : UrlParams, headers : HeaderParams, range : RangeValues,
     protocol : {Http}, host : Hosts]
NoRequest ==
    [url |-> UndefinedText,
     headers |-> [text |-> UndefinedText, json |-> "SyntaxError", map |-> NoHeaders],
     range |-> Undefined, protocol |-> Http, host |-> <<"p">>]

\* Lines an upstream playlist is made of.
PlaylistLines ==
    { <<"#", "E">>,
      <<"#", "a", ".", "t", "s">>,
      <<"a", ".", "t", "s">>,
      <<" ", "a", ".", "t", "s", "?", "k", " ">>,
      <<"h", "t", "t", "p", ":", "/", "/", "o", "/", "b", ".", "t", "s">>,
      <<"h", "t", "t", "p", "a", ".", "t", "s">>,
      <<".", "t", "s">>,
      <<"a", ".", "m">>,
      << >> }

RECURSIVE Join(_, _)
Join(lines, sep) ==
    IF lines = << >> THEN << >>
    ELSE IF Len(lines) = 1 THEN lines[1]
    ELSE lines[1] \o sep \o Join(Tail(lines), sep)

Playlists ==
    { Join(ls, sep) :
        ls \in UNION {[1..n -> PlaylistLines] : n \in 0..MaxLines},
        sep \in {<<LF>>, <<CR, LF>>} }

\* What node-fetch hands back: status, the three headers read with
\* headers.get (null when absent), and the body.
M3u8StatusCodes == {200, 404}
TsStatusCodes == {200, 206, 404}
\* IsOk without the upper limit.
IsOkNoUpper(status) == status >= 200
\* response.ok
IsOk(status) == status >= 200 /\ status < 300

M3u8Responses ==
    [status : M3u8StatusCodes, ctype : {Null}, clen : {Null}, crange : {Null},
     text : {NoText}, chunks : {0}]
TsResponses ==
    [status : TsStatusCodes, ctype : {Null, "", "video/mp4"}, clen : {Null, "1000"},
     crange : {Null, "", "bytes 0-999/5000"},
     text : {NoText}, chunks : 0..MaxChunks]
NoResponse ==
    [status |-> 0, ctype |-> Null, clen |-> Null, crange |-> Null,
     text |-> NoText, chunks |-> 0]

\* ------------------------------------------------------------------ state
VARIABLES
    pc,         \* where the handler is: idle, fetching, reading, piping, done, broken
    route,      \* "none", "m3u8" or "ts"
    req,        \* the inbound request
    fetches,    \* upstream fetches issued for the request
    fetchOpts,  \* url and headers of the upstream fetch
    upstream,   \* the upstream response, once there is one
    res         \* the outbound response

vars == <<pc, route, req, fetches, fetchOpts, upstream, res>>

NoDetails == [msg |-> "", status |-> 0, statusText |-> ""]
NoJson == [error |-> "", details |-> NoDetails]
NoFetch == [url |-> NoText, headers |-> NoHeaders]
FreshRes ==
    [status |-> 200, headers |-> NoHeaders, json |-> NoJson, text |-> NoText,
     chunks |-> 0, ended |-> FALSE]

StatusText(status) ==
    CASE status = 200 -> "OK"
      [] status = 206 -> "Partial Content"
      [] status = 404 -> "Not Found"
      [] OTHER -> ""

\* error.message of new Error(`HTTP ${response.status}: ${response.statusText}`),
\* kept as the parts of the template.
HttpError(r) == [msg |-> "HTTP", status |-> r.status, statusText |-> StatusText(r.status)]
Message(m) == [msg |-> m, status |-> 0, statusText |-> ""]

\* res.status(code).json(body)
Json(code, body) ==
    [status |-> code, headers |-> [k \in {"Content-Type"} |-> "application/json"],
     json |-> body, text |-> NoText, chunks |-> 0, ended |-> TRUE]

MissingUrl == Json(400, [error |-> "URL parameter is required", details |-> NoDetails])
M3u8Failure(d) == Json(500, [error |-> "Failed to fetch M3U8", details |-> d])
TsFailure(d) == Json(500, [error |-> "Failed to fetch TS file", details |-> d])
Failure(r, d) == IF r = "m3u8" THEN M3u8Failure(d) ELSE TsFailure(d)

Init ==
    /\ pc = "idle"
    /\ route = "none"
    /\ req = NoRequest
    /\ fetches = 0
    /\ fetchOpts = NoFetch
    /\ upstream = NoResponse
    /\ res = FreshRes

\* UrlMissing testing for undefined only.
UrlMissingUndefinedOnly(q) == q.url = UndefinedText

\* if (!url) return res.status(400).json(...)
UrlMissing(q) == ~ UrlTruthy(q.url)

\* The handler up to its first await: the url check, decodeURIComponent(url)
\* (a URIError goes to the catch), the header set, the call of fetch.
Start(r, q, headerSet) ==
    /\ pc = "idle"
    /\ route' = r
    /\ req' = q
    /\ upstream' = upstream
    /\ IF UrlMissing(q)
       THEN /\ res' = MissingUrl
            /\ pc' = "done"
            /\ UNCHANGED <<fetches, fetchOpts>>
       ELSE IF DecodeURIComponent(q.url) = URIError
       THEN /\ res' = Failure(r, Message("URI malformed"))
            /\ pc' = "done"
            /\ UNCHANGED <<fetches, fetchOpts>>
       ELSE /\ fetchOpts' = [url |-> DecodeURIComponent(q.url), headers |-> headerSet]
            /\ fetches' = fetches + 1
            /\ pc' = "fetching"
            /\ res' = res

M3u8Request == \E q \in M3u8Requests : Start("m3u8", q, M3u8DefaultHeaders(q))
TsRequest == \E q \in TsRequests : Start("ts", q, TsDefaultHeaders(q))

\* fetch rejects (timeout after 30 s, network failure): the catch block.
FetchRejects ==
    /\ pc = "fetching"
    /\ \E m \in {"network timeout", "request failed"} :
         res' = Failure(route, Message(m))
    /\ pc' = "done"
    /\ UNCHANGED <<route, req, fetches, fetchOpts, upstream>>

\* /m3u8-proxy, fetch resolved: if (!response.ok) throw; await response.text()
M3u8Response ==
    /\ pc = "fetching" /\ route = "m3u8"
    /\ \E r \in M3u8Responses :
         /\ upstream' = r
         /\ IF ~ IsOk(r.status)
            THEN res' = M3u8Failure(HttpError(r)) /\ pc' = "done"
            ELSE res' = res /\ pc' = "reading"
    /\ UNCHANGED <<route, req, fetches, fetchOpts>>

\* response.text() rejects (the body breaks off or times out): the catch block.
M3u8TextFails ==
    /\ pc = "reading"
    /\ res' = M3u8Failure(Message("body failed"))
    /\ pc' = "done"
    /\ UNCHANGED <<route, req, fetches, fetchOpts, upstream>>

M3u8Headers ==
    [k \in {"Content-Type", "Access-Control-Allow-Origin",
            "Access-Control-Allow-Methods", "Access-Control-Allow-Headers",
            "Cache-Control"} |->
        CASE k = "Content-Type" -> "application/vnd.apple.mpegurl"
          [] k = "Access-Control-Allow-Origin" -> "*"
          [] k = "Access-Control-Allow-Methods" -> "GET, POST, OPTIONS"
          [] k = "Access-Control-Allow-Headers" -> "Content-Type, Authorization, Referer, User-Agent"
          [] k = "Cache-Control" -> "no-cache"]

\* content.replace(...) with baseUrl taken from decodedUrl: the rewritten
\* playlist, or the exception of the rewrite.
Rewritten(content, decodedUrl, q) == ReplaceAll(content, BaseUrl(decodedUrl), q)

\* /m3u8-proxy, response.text() resolved: the rewrite, res.set, res.send.
M3u8Text ==
    /\ pc = "reading"
    /\ \E body \in Playlists :
         /\ upstream' = [upstream EXCEPT !.text = body]
         /\ LET content == Rewritten(body, fetchOpts.url, req)
            IN  IF content = TypeError
                THEN res' = M3u8Failure(Message("Assignment to constant variable."))
                ELSE res' = [res EXCEPT !.headers = M3u8Headers, !.text = content,
                                        !.ended = TRUE]
    /\ pc' = "done"
    /\ UNCHANGED <<route, req, fetches, fetchOpts>>

\* String(value) of res.set for a value read with headers.get.
TsHeaders(r) ==
    [k \in {"Content-Type", "Content-Length", "Accept-Ranges",
            "Access-Control-Allow-Origin", "Access-Control-Allow-Methods",
            "Access-Control-Allow-Headers", "Cache-Control"} |->
        CASE k = "Content-Type" -> IF r.ctype \in {Null, ""} THEN "video/mp2t" ELSE r.ctype
          [] k = "Content-Length" -> IF r.clen = Null THEN "null" ELSE r.clen
          [] k = "Accept-Ranges" -> "bytes"
          [] k = "Access-Control-Allow-Origin" -> "*"
          [] k = "Access-Control-Allow-Methods" -> "GET, POST, OPTIONS"
          [] k = "Access-Control-Allow-Headers" -> "Content-Type, Authorization, Referer, User-Agent, Range"
          [] k = "Cache-Control" -> "public, max-age=3600"]

\* HasContentRange decided by the upstream status.
HasContentRangeByStatus(r) == r.status = 206

\* if (response.headers.get('content-range')) { res.set(...); res.status(206) }
HasContentRange(r) == r.crange \notin {Null, ""}

TsResponseHead(r) ==
    IF HasContentRange(r)
    THEN [FreshRes EXCEPT
            !.headers = Spread(TsHeaders(r), [k \in {"Content-Range"} |-> r.crange]),
            !.status = 206]
    ELSE [FreshRes EXCEPT !.headers = TsHeaders(r)]

\* /ts-proxy, fetch resolved: if (!response.ok) throw; res.set; pipe.
TsResponse ==
    /\ pc = "fetching" /\ route = "ts"
    /\ \E r \in TsResponses :
         /\ upstream' = r
         /\ IF ~ IsOk(r.status)
            THEN res' = TsFailure(HttpError(r)) /\ pc' = "done"
            ELSE res' = TsResponseHead(r) /\ pc' = "piping"
    /\ UNCHANGED <<route, req, fetches, fetchOpts>>

\* response.body.pipe(res): a chunk of the upstream body is written to res.
TsPipeChunk ==
    /\ pc = "piping"
    /\ res.chunks < upstream.chunks
    /\ res' = [res EXCEPT !.chunks = @ + 1]
    /\ UNCHANGED <<pc, route, req, fetches, fetchOpts, upstream>>

\* The upstream body ends: pipe ends res.
TsPipeEnd ==
    /\ pc = "piping"
    /\ res.chunks = upstream.chunks
    /\ res' = [res EXCEPT !.ended = TRUE]
    /\ pc' = "done"
    /\ UNCHANGED <<route, req, fetches, fetchOpts, upstream>>

\* The upstream body breaks off while it is piped. pipe ends res on the
\* source's 'end' only, and the handler registers nothing on the body: the
\* promise of the handler has long resolved, so the catch is not reached.
TsBodyError ==
    /\ pc = "piping"
    /\ pc' = "broken"
    /\ UNCHANGED <<route, req, fetches, fetchOpts, upstream, res>>

Next ==
    \/ M3u8Request
    \/ TsRequest
    \/ FetchRejects
    \/ M3u8Response
    \/ M3u8TextFails
    \/ M3u8Text
    \/ TsResponse
    \/ TsPipeChunk
    \/ TsPipeEnd
    \/ TsBodyError

Spec == Init /\ [][Next]_vars

\* Every enabled step of a handler is eventually run (the event loop runs
\* each ready callback; fetch settles within its 30 s timeout).
FairSpec == Spec /\ WF_vars(Next)

\* ----------------------------------------------------------------- claims
\* A playlist as its lines (maximal runs without a line terminator) and the
\* terminators between them.
RECURSIVE LinesOf(_)
LinesOf(s) ==
    IF \A i \in 1..Len(s) : s[i] \notin LineTerminators THEN <<s>>
    ELSE LET k == CHOOSE i \in 1..Len(s) :
                    /\ s[i] \in LineTerminators
                    /\ \A j \in 1..(i - 1) : s[j] \notin LineTerminators
         IN  <<SubSeq(s, 1, k - 1)>> \o LinesOf(SubSeq(s, k + 1, Len(s)))

IsTerminator(c) == c \in LineTerminators
BreaksOf(s) == SelectSeq(s, IsTerminator)

Contains(s, p) == \E i \in 1..(Len(s) - Len(p) + 1) : SubSeq(s, i, i + Len(p) - 1) = p
EndsWith(s, p) == Len(s) >= Len(p) /\ SubSeq(s, Len(s) - Len(p) + 1, Len(s)) = p
IsComment(line) == Len(line) >= 1 /\ line[1] = "#"
IsSegmentReference(line) == ~ IsComment(line) /\ Contains(line, DotTs)
IsAbsolute(ref) ==
    \/ StartsWith(ref, Http \o SchemeSep)
    \/ StartsWith(ref, Http \o <<"s">> \o SchemeSep)
GoodUrls == {PlainUrl, QueryUrl, EscapedUrl}
AmpHeaders == <<"&", "h", "e", "a", "d", "e", "r", "s", "=">>

\* /m3u8-proxy has answered with a rewritten playlist.
PlaylistReturned == route = "m3u8" /\ pc = "done" /\ res.text # NoText
\* /m3u8-proxy has read the upstream playlist and answered.
PlaylistRead == route = "m3u8" /\ pc = "done" /\ upstream.text # NoText

\* A reference resolved against the base URL as the specification has it.
ResolvedReference(ref, base) == IF IsAbsolute(ref) THEN ref ELSE base \o ref

\* C1: in a rewritten playlist whose input has ".ts" in every line that does
\* not start with '#', each such line has
\* become <protocol>://<host>/ts-proxy?url=X, where X percent-decodes to the
\* trimmed reference resolved against the decoded target URL cut after its
\* last '/'.
C1_EveryReferenceResolved ==
    (PlaylistReturned /\ \A i \in 1..Len(LinesOf(upstream.text)) :
                            IsComment(LinesOf(upstream.text)[i])
                            \/ Contains(LinesOf(upstream.text)[i], DotTs))
    => LET in == LinesOf(upstream.text)
           out == LinesOf(res.text)
           head == Origin(req) \o TsProxyUrl
           url == fetchOpts.url
           base == SubSeq(url, 1, CHOOSE i \in 1..Len(url) :
                              url[i] = "/" /\ \A j \in (i + 1)..Len(url) : url[j] # "/")
       IN  /\ Len(out) = Len(in)
           /\ \A i \in 1..Len(in) :
                 ~ IsComment(in[i]) =>
                     /\ StartsWith(out[i], head)
                     /\ DecodeURIComponent(SubSeq(out[i], Len(head) + 1, Len(out[i])))
                          = ResolvedReference(Trim(in[i]), base)

\* C2: a request with a non-empty `headers` parameter whose upstream playlist
\* has a segment-reference line is answered with the rewritten playlist, and
\* every rewritten line ends with &headers=<the parameter, percent-encoded>.
C2_HeadersForwarded ==
    (/\ PlaylistRead
     /\ Truthy(req.headers)
     /\ \E i \in 1..Len(LinesOf(upstream.text)) :
            IsSegmentReference(LinesOf(upstream.text)[i]))
    => /\ res.status = 200
       /\ res.text # NoText
       /\ \A i \in 1..Len(LinesOf(res.text)) :
            LinesOf(res.text)[i] # LinesOf(upstream.text)[i]
            => EndsWith(LinesOf(res.text)[i],
                        AmpHeaders \o EncodeURIComponent(req.headers.text))

\* C3: in a rewritten playlist every line that starts with '#', and every
\* line that is no segment reference, is the input line at the same position,
\* and the line terminators are the input's: no line is added, removed or
\* moved. (A line is a maximal run of characters other than CR and LF.)
C3_OtherLinesUntouched ==
    PlaylistReturned
    => LET in == LinesOf(upstream.text)
           out == LinesOf(res.text)
       IN  /\ Len(out) = Len(in)
           /\ BreaksOf(res.text) = BreaksOf(upstream.text)
           /\ \A i \in 1..Len(in) :
                (IsComment(in[i]) \/ ~ IsSegmentReference(in[i])) => out[i] = in[i]

C3_Witness ==
    /\ PlaylistReturned
    /\ \E i \in 1..Len(LinesOf(upstream.text)) :
          /\ IsComment(LinesOf(upstream.text)[i])
          /\ Contains(LinesOf(upstream.text)[i], DotTs)
    /\ res.text # upstream.text

\* C4: a reference that is an absolute http(s) URL goes into the proxy link
\* percent-encoded and without baseUrl in front; and rewriting the rewritten
\* playlist again, against any base URL, puts that base URL in front of no
\* line: each line stays or becomes the proxy link of the line itself.
C4_AbsoluteNotPrefixed ==
    PlaylistReturned
    => LET in == LinesOf(upstream.text)
           out == LinesOf(res.text)
           head == Origin(req) \o TsProxyUrl
       IN  /\ \A i \in 1..Len(in) :
                (IsSegmentReference(in[i]) /\ IsAbsolute(Trim(in[i])))
                => out[i] = head \o EncodeURIComponent(Trim(in[i]))
           /\ \A u \in GoodUrls :
                LET again == LinesOf(Rewritten(res.text, DecodeURIComponent(u), req))
                IN  /\ Len(again) = Len(out)
                    /\ \A i \in 1..Len(out) :
                          \/ again[i] = out[i]
                          \/ again[i] = head \o EncodeURIComponent(Trim(out[i]))

C4_Witness ==
    /\ PlaylistReturned
    /\ \E i \in 1..Len(LinesOf(upstream.text)) :
          /\ IsAbsolute(LinesOf(upstream.text)[i])
          /\ LinesOf(res.text)[i] # LinesOf(upstream.text)[i]
    /\ Rewritten(res.text, PlainUrl, req) # res.text

\* C5: on both routes, an upstream answer with a status outside 200..299 is
\* answered with 500 and a JSON body {error, details} whose details carry the
\* status; no upstream header is mirrored and no playlist text or segment
\* chunk is sent.
C5_UpstreamErrorIs500 ==
    (upstream.status # 0 /\ (upstream.status < 200 \/ upstream.status > 299))
    => /\ res.status = 500
       /\ res.ended
       /\ res.json.error \in {"Failed to fetch M3U8", "Failed to fetch TS file"}
       /\ res.json.details.msg = "HTTP"
       /\ res.json.details.status = upstream.status
       /\ res.text = NoText
       /\ res.chunks = 0
       /\ DOMAIN res.headers = {"Content-Type"}
       /\ res.headers["Content-Type"] = "application/json"

C5_Witness ==
    /\ route = "ts"
    /\ upstream.status = 404
    /\ upstream.ctype = "video/mp4" /\ upstream.chunks > 0
    /\ res.status = 500

\* C6: on both routes, with a usable url: a `headers` parameter that cannot
\* be percent-decoded or parsed as JSON still leads to the upstream fetch, with
\* exactly the default header set, and no answer reports the decode or parse
\* error; a parameter that is a JSON object gives
\* each of its keys the caller's value and leaves every other default key at
\* its default.
C6_HeaderOverrides ==
    (route # "none" /\ req.url \in GoodUrls)
    => LET defaults == IF route = "m3u8" THEN M3u8Defaults ELSE TsDefaults(req)
           h == req.headers
       IN  /\ fetches = 1
           /\ res.json.details.msg \notin {"URI malformed", "Unexpected token"}
           /\ (Truthy(h) /\ (DecodeURIComponent(h.text) = URIError
                             \/ h.json = "SyntaxError"))
              => fetchOpts.headers = defaults
           /\ (Truthy(h) /\ DecodeURIComponent(h.text) # URIError
                         /\ h.json = "object")
              => /\ \A k \in DOMAIN h.map : fetchOpts.headers[k] = h.map[k]
                 /\ \A k \in DOMAIN defaults \ DOMAIN h.map :
                        fetchOpts.headers[k] = defaults[k]
                 /\ DOMAIN fetchOpts.headers = DOMAIN defaults \cup DOMAIN h.map

C6_Witness ==
    /\ route = "m3u8"
    /\ pc = "fetching"
    /\ req.headers.json = "object"
    /\ "User-Agent" \in DOMAIN req.headers.map
    /\ fetchOpts.headers["User-Agent"] = "caller"
    /\ fetchOpts.headers["Accept"] = "*/*"

\* C7: on /ts-proxy with a 2xx upstream answer, the status is 206 and
\* Content-Range is the upstream's exactly when the upstream answer has a
\* (non-empty) Content-Range; otherwise the status is 200 and there is no
\* Content-Range. Accept-Ranges is bytes; Content-Type is the upstream's, or
\* video/mp2t when the upstream has none.
C7_PartialContent ==
    (route = "ts" /\ upstream.status >= 200 /\ upstream.status <= 299)
    => /\ IF upstream.crange # Null /\ upstream.crange # ""
          THEN /\ res.status = 206
               /\ "Content-Range" \in DOMAIN res.headers
               /\ res.headers["Content-Range"] = upstream.crange
          ELSE /\ res.status = 200
               /\ "Content-Range" \notin DOMAIN res.headers
       /\ res.headers["Accept-Ranges"] = "bytes"
       /\ res.headers["Content-Type"] =
            (IF upstream.ctype # Null /\ upstream.ctype # "" THEN upstream.ctype
             ELSE "video/mp2t")

C7_Witness ==
    /\ route = "ts"
    /\ upstream.status = 200
    /\ upstream.crange = "bytes 0-999/5000"
    /\ res.status = 206
    /\ res.chunks = upstream.chunks /\ res.chunks > 0
    /\ res.ended

\* C8: every request is eventually answered in full: the response is ended.
C8_AlwaysAnswered == (route # "none") ~> res.ended

\* C9: on both routes a request without url (missing or empty) gets 400 and
\* {"error":"URL parameter is required"} and no upstream fetch; no request
\* issues more than one upstream fetch.
C9_MissingUrlNoFetch ==
    /\ fetches <= 1
    /\ (route # "none" /\ (req.url = UndefinedText \/ req.url = << >>))
       => /\ res.status = 400
          /\ res.json = [error |-> "URL parameter is required", details |-> NoDetails]
          /\ res.ended
          /\ fetches = 0

C9_Witness ==
    /\ route = "ts"
    /\ req.url = << >>
    /\ res.status = 400
    /\ pc = "done"

\* C10: on /ts-proxy the header set of the upstream fetch has Range with the
\* inbound request's value when the inbound request has a Range header, and no
\* Range entry when it has none, whatever the caller's overrides; on
\* /m3u8-proxy no Range entry comes from the inbound request.
C10_RangeMirrored ==
    /\ (route = "ts" /\ fetches = 1)
       => IF req.range # Undefined
          THEN /\ "Range" \in DOMAIN fetchOpts.headers
               /\ fetchOpts.headers["Range"] = req.range
          ELSE "Range" \notin DOMAIN fetchOpts.headers
    /\ (route = "m3u8" /\ fetches = 1)
       => ("Range" \in DOMAIN fetchOpts.headers => "Range" \in DOMAIN req.headers.map)

====
